---- MODULE Spec2Model ----
(***************************************************************************)
(* redis-sentinel-proxy (main.go): the sentinel discovery functions, the   *)
(* update_master goroutine, the accept loop of main, and the proxy / pipe  *)
(* goroutines of every accepted connection.                                *)
(*                                                                         *)
(* Goroutines interleave at the granularity of their shared-memory         *)
(* accesses: masterAddr and masterStopChan are read and written with no    *)
(* synchronisation, so every read and every write is a step of its own.    *)
(***************************************************************************)
EXTENDS Integers, Sequences, FiniteSets, TLC

VARIABLES
    masterAddr,      \* the global masterAddr *net.TCPAddr              (main.go:21)
    masterStopChan,  \* main's local masterStopChan: id of the installed channel (main.go:105)
    closed,          \* ids of the master-stop channels that were closed (main.go:134)
    tracker,         \* the update_master goroutine: pc and its local possibleMaster
    acceptLoop,      \* the for loop of main: pc and the evaluated arguments of `go proxy`
    sessions,        \* the proxy goroutines, in the order they were started
    published,       \* history: published[c] is masterAddr when channel c was installed
    changes,         \* history: how many times update_master assigned masterAddr
    lastPoll         \* history: the environment the traced poll of this iteration ran against

vars == <<masterAddr, masterStopChan, closed, tracker, acceptLoop, sessions,
          published, changes, lastPoll>>

(***************************************************************************)
(* Bounds of the model.                                                    *)
(***************************************************************************)
MaxSessions == 2     \* connections the accept loop accepts
MaxChanges == 2      \* master changes update_master goes through
MaxSentinels == 2    \* IPs the sentinel host name resolves to

(***************************************************************************)
(* *net.TCPAddr and its String method.  A nil pointer prints as "<nil>".   *)
(***************************************************************************)
nil == [isNil |-> TRUE]

TCPAddr(ip, port) == [isNil |-> FALSE, IP |-> ip, Port |-> port]

String(a) == IF a.isNil THEN "<nil>" ELSE a.IP \o ":" \o ToString(a.Port)

\* The redis nodes of the environment that may be master.
Masters == {TCPAddr("10.0.0.1", 6380), TCPAddr("10.0.0.2", 6380)}

\* net.DialTimeout: succeeds iff something listens on the address the string names.
\* "<nil>" names no address (missing port), so the dial of a nil *TCPAddr fails.
DialTimeout(address, listening) == \E a \in listening : String(a) = address

(***************************************************************************)
(* Sentinel replies.  A byte string is a sequence of tokens; CRLF is the   *)
(* two-byte token "\r\n" and NULs the run of zero bytes that pads the      *)
(* 256-byte read buffer.                                                   *)
(***************************************************************************)
CRLF == "\r\n"

NULs == "\\0..."

\* conn.Read(b) into b := make([]byte, 256): the reply, then the untouched zero bytes;
\* the whole of b is what getMasterAddrFromSentinelResponse is given.
Read(reply) == reply \o <<NULs>>

\* strings.Split(s, sep): the segments of s between the separators.
RECURSIVE Split(_, _)
Split(s, sep) ==
    IF s = <<>> THEN << <<>> >>
    ELSE LET rest == Split(Tail(s), sep)
         IN  IF Head(s) = sep
             THEN << <<>> >> \o rest
             ELSE << <<Head(s)>> \o Head(rest) >> \o Tail(rest)

\* net.ResolveTCPAddr("tcp", host:port) on an IP literal and a decimal port.
IPLiterals == {a.IP : a \in Masters}

PortNumbers == {a.Port : a \in Masters}

ParsePort(text) == CHOOSE p \in PortNumbers : ToString(p) = text

ResolveTCPAddr(s) ==
    IF /\ Len(s) = 3
       /\ s[2] = ":"
       /\ s[1] \in IPLiterals
       /\ \E p \in PortNumbers : ToString(p) = s[3]
    THEN [addr |-> TCPAddr(s[1], ParsePort(s[3])), err |-> FALSE, panic |-> FALSE]
    ELSE [addr |-> nil, err |-> TRUE, panic |-> FALSE]

\* A call's results: (nil, err), or a run-time panic in the call.
Failure == [addr |-> nil, err |-> TRUE, panic |-> FALSE]

Panic == [addr |-> nil, err |-> TRUE, panic |-> TRUE]

\* Go slices are indexed from 0; an index past the end panics.
InRange(slice, i) == i + 1 \in DOMAIN slice

At(slice, i) == slice[i + 1]

\* The least number of segments a reply must split into.
MinResponseParts == 5

\* The same without the length check of main.go:218.
getMasterAddrFromSentinelResponse_NoLenCheck(response) ==
    LET responseParts == Split(response, CRLF)
    IN  IF ~InRange(responseParts, 2) \/ ~InRange(responseParts, 4)
        THEN Panic
        ELSE ResolveTCPAddr(At(responseParts, 2) \o <<":">> \o At(responseParts, 4))

\* getMasterAddrFromSentinelResponse: the host is responseParts[2], the port
\* responseParts[4], joined by fmt.Sprintf("%s:%s", ...).
getMasterAddrFromSentinelResponse(response) ==
    LET responseParts == Split(response, CRLF)
    IN  IF Len(responseParts) < MinResponseParts
        THEN Failure
        ELSE IF ~InRange(responseParts, 2) \/ ~InRange(responseParts, 4)
             THEN Panic
             ELSE ResolveTCPAddr(At(responseParts, 2) \o <<":">> \o At(responseParts, 4))

\* What one sentinel does when asked: it refuses the connection, it accepts and
\* sends nothing readable, or it sends a reply.
GoodReply(a) ==
    <<"*2", CRLF, "$8", CRLF, a.IP, CRLF, "$4", CRLF, ToString(a.Port), CRLF>>

\* The sentinel knows no master of that name.
NilReply == <<"*-1", CRLF>>

\* Replies that Read got only the beginning of: cut in the host, and cut before the port.
TruncatedReply == <<"*2", CRLF, "$8", CRLF, "10.0.">>

PortlessReply == <<"*2", CRLF, "$8", CRLF, "10.0.0.1", CRLF, "$4", CRLF>>

Replies ==
    {GoodReply(a) : a \in Masters} \cup {NilReply, TruncatedReply, PortlessReply}

Sentinels ==
    {[up |-> FALSE, readable |-> FALSE, reply |-> <<>>],
     [up |-> TRUE, readable |-> FALSE, reply |-> <<>>]}
        \cup {[up |-> TRUE, readable |-> TRUE, reply |-> r] : r \in Replies}

\* getMasterAddrFromSentinel
getMasterAddrFromSentinel(sentinel) ==
    IF ~sentinel.up THEN Failure
    ELSE IF ~sentinel.readable THEN Failure
    ELSE getMasterAddrFromSentinelResponse(Read(sentinel.reply))

\* The loop without the reachability probe of main.go:260-264: the first address a
\* sentinel reports is returned.
RECURSIVE getMasterAddrLoop_NoProbe(_, _)
getMasterAddrLoop_NoProbe(sentinels, listening) ==
    IF sentinels = <<>> THEN [addr |-> nil, err |-> FALSE, panic |-> FALSE]
    ELSE LET r == getMasterAddrFromSentinel(Head(sentinels))
         IN  IF r.panic THEN Panic
             ELSE IF r.err
                  THEN getMasterAddrLoop_NoProbe(Tail(sentinels), listening)
                  ELSE [addr |-> r.addr, err |-> FALSE, panic |-> FALSE]

\* The loop without the return of main.go:266: every sentinel is asked and the
\* address of the last one that passes the probe is returned.
RECURSIVE getMasterAddrLoop_Last(_, _)
getMasterAddrLoop_Last(sentinels, listening) ==
    IF sentinels = <<>> THEN [addr |-> nil, err |-> FALSE, panic |-> FALSE]
    ELSE LET r == getMasterAddrFromSentinel(Head(sentinels))
             rest == getMasterAddrLoop_Last(Tail(sentinels), listening)
         IN  IF r.panic THEN Panic
             ELSE IF ~DialTimeout(String(r.addr), listening) \/ rest.addr # nil
                  THEN rest
                  ELSE [addr |-> r.addr, err |-> FALSE, panic |-> FALSE]

\* The for loop of getMasterAddr over the resolved sentinels.  The error of
\* getMasterAddrFromSentinel is only logged: the returned (nil) address is dialed
\* all the same, and it is the failure of that dial that moves on to the next one.
RECURSIVE getMasterAddrLoop(_, _)
getMasterAddrLoop(sentinels, listening) ==
    IF sentinels = <<>> THEN [addr |-> nil, err |-> FALSE, panic |-> FALSE]
    ELSE LET r == getMasterAddrFromSentinel(Head(sentinels))
         IN  IF r.panic THEN Panic
             ELSE IF ~DialTimeout(String(r.addr), listening)
                  THEN getMasterAddrLoop(Tail(sentinels), listening)
                  ELSE [addr |-> r.addr, err |-> FALSE, panic |-> FALSE]

\* getMasterAddr on one environment: whether getSentinels succeeds (the sentinel
\* address splits and its host resolves), the sentinels it resolves to, in order,
\* and the addresses something listens on.
getMasterAddr(env) ==
    IF ~env.dns THEN Failure
    ELSE getMasterAddrLoop(env.sentinels, env.listening)

RECURSIVE SeqsUpTo(_, _)
SeqsUpTo(S, n) ==
    IF n = 0 THEN {<<>>}
    ELSE LET shorter == SeqsUpTo(S, n - 1)
         IN  shorter \cup {Append(q, x) : q \in shorter, x \in S}

PollEnvs ==
    {[dns |-> FALSE, sentinels |-> <<>>, listening |-> {}]}
        \cup {[dns |-> TRUE, sentinels |-> q, listening |-> l] :
                 q \in SeqsUpTo(Sentinels, MaxSentinels), l \in SUBSET Masters}

\* Every result getMasterAddr can hand to update_master.
PollResults == {getMasterAddr(env) : env \in PollEnvs}

\* update_master at the top of its loop, and the accept loop at AcceptTCP.
Polling == [pc |-> "poll", possibleMaster |-> nil]

Idle == [pc |-> "accept", haveAddr |-> FALSE, remoteAddr |-> nil,
         haveChan |-> FALSE, masterStopChan |-> 0]

(***************************************************************************)
(* Initial state: main.go:21 (masterAddr is nil), main.go:105 (the first   *)
(* channel), update_master and the accept loop about to start.             *)
(***************************************************************************)
Init ==
    /\ masterAddr = nil
    /\ masterStopChan = 1
    /\ closed = {}
    /\ tracker = Polling
    /\ acceptLoop = Idle
    /\ sessions = <<>>
    /\ published = <<nil>>
    /\ changes = 0
    /\ lastPoll = <<>>

\* A panic in any goroutine ends the process.
Running == tracker.pc # "panic"

(***************************************************************************)
(* update_master                                                           *)
(***************************************************************************)
\* main.go:124-125: one call of getMasterAddr and the test of its error.
Polled(r) ==
    /\ Running
    /\ tracker.pc = "poll"
    /\ changes < MaxChanges
    /\ tracker' = IF r.panic THEN [Polling EXCEPT !.pc = "panic"]
                  ELSE IF r.err THEN [Polling EXCEPT !.pc = "backoff"]
                  ELSE [pc |-> "compare", possibleMaster |-> r.addr]
    /\ UNCHANGED <<masterAddr, masterStopChan, closed, acceptLoop, sessions,
                   published, changes>>

update_master_poll ==
    \E r \in PollResults : Polled(r) /\ UNCHANGED lastPoll

\* The same step, keeping the environment it ran against.
update_master_poll_traced ==
    \E env \in PollEnvs : Polled(getMasterAddr(env)) /\ lastPoll' = <<env>>

\* The error of a poll taken for the loss of the master: the address is dropped
\* and the sessions are cancelled before the next poll.
update_master_backoff_Reset ==
    /\ Running
    /\ tracker.pc = "backoff"
    /\ masterAddr' = nil
    /\ closed' = closed \cup {masterStopChan}
    /\ tracker' = Polling
    /\ lastPoll' = <<>>
    /\ UNCHANGED <<masterStopChan, acceptLoop, sessions, published, changes>>

\* main.go:126-128: the error is logged, a one second sleep, continue.
update_master_backoff ==
    /\ Running
    /\ tracker.pc = "backoff"
    /\ tracker' = Polling
    /\ lastPoll' = <<>>
    /\ UNCHANGED <<masterAddr, masterStopChan, closed, acceptLoop, sessions,
                   published, changes>>

\* The comparison as one of pointers, possibleMaster != masterAddr: every result of
\* getMasterAddr is a new pointer or nil.
MasterChanged_Pointers(possibleMaster, current) ==
    possibleMaster # nil \/ current # nil

\* main.go:131: possibleMaster.String() != masterAddr.String()
MasterChanged(possibleMaster, current) == String(possibleMaster) # String(current)

\* main.go:131-133 and, when nothing changed, 138-145.
update_master_compare ==
    /\ Running
    /\ tracker.pc = "compare"
    /\ IF MasterChanged(tracker.possibleMaster, masterAddr)
       THEN /\ masterAddr' = tracker.possibleMaster
            /\ changes' = changes + 1
            /\ tracker' = [tracker EXCEPT !.pc = "close"]
            /\ UNCHANGED lastPoll
       ELSE /\ tracker' = Polling
            /\ lastPoll' = <<>>
            /\ UNCHANGED <<masterAddr, changes>>
    /\ UNCHANGED <<masterStopChan, closed, acceptLoop, sessions, published>>

\* main.go:134: close(*masterStopChan); closing a closed channel panics.
update_master_close ==
    /\ Running
    /\ tracker.pc = "close"
    /\ IF masterStopChan \in closed
       THEN /\ tracker' = [Polling EXCEPT !.pc = "panic"]
            /\ UNCHANGED closed
       ELSE /\ closed' = closed \cup {masterStopChan}
            /\ tracker' = [tracker EXCEPT !.pc = "make"]
    /\ UNCHANGED <<masterAddr, masterStopChan, acceptLoop, sessions, published,
                   changes, lastPoll>>

\* The update without main.go:135: the closed channel stays installed.
update_master_make_SameChan ==
    /\ Running
    /\ tracker.pc = "make"
    /\ tracker' = Polling
    /\ lastPoll' = <<>>
    /\ UNCHANGED <<masterAddr, masterStopChan, closed, acceptLoop, sessions,
                   published, changes>>

\* main.go:135: *masterStopChan = make(chan string), then 138-145.
update_master_make ==
    /\ Running
    /\ tracker.pc = "make"
    /\ masterStopChan' = Len(published) + 1
    /\ published' = Append(published, masterAddr)
    /\ tracker' = Polling
    /\ lastPoll' = <<>>
    /\ UNCHANGED <<masterAddr, closed, acceptLoop, sessions, changes>>

(***************************************************************************)
(* main: the accept loop                                                   *)
(***************************************************************************)
\* proxy's goroutine as `go proxy(local, remoteAddr, masterStopChan)` starts it.
NewSession(remoteAddr, stopChan) ==
    [pc |-> "dial", remoteAddr |-> remoteAddr, masterStopChan |-> stopChan,
     local |-> "open", remote |-> "none",
     localChan |-> "none", remoteChan |-> "none"]

\* The accept loop making a channel of its own for every connection it accepts.
main_accept_Rotate ==
    /\ Running
    /\ acceptLoop.pc = "accept"
    /\ Len(sessions) < MaxSessions
    /\ acceptLoop' = [acceptLoop EXCEPT !.pc = "go"]
    /\ masterStopChan' = Len(published) + 1
    /\ published' = Append(published, masterAddr)
    /\ UNCHANGED <<masterAddr, closed, tracker, sessions, changes, lastPoll>>

\* main.go:112-116: AcceptTCP returns a connection (an error only loops).
main_accept ==
    /\ Running
    /\ acceptLoop.pc = "accept"
    /\ Len(sessions) < MaxSessions
    /\ acceptLoop' = [acceptLoop EXCEPT !.pc = "go"]
    /\ UNCHANGED <<masterAddr, masterStopChan, closed, tracker, sessions,
                   published, changes, lastPoll>>

\* main.go:118: the go statement once both arguments are evaluated.
Go(args) ==
    IF args.haveAddr /\ args.haveChan
    THEN /\ sessions' = Append(sessions, NewSession(args.remoteAddr, args.masterStopChan))
         /\ acceptLoop' = Idle
    ELSE /\ acceptLoop' = args
         /\ UNCHANGED sessions

\* The address read once, before update_master has found a master, instead of at
\* every go statement.
main_read_masterAddr_Hoisted ==
    /\ Running
    /\ acceptLoop.pc = "go"
    /\ ~acceptLoop.haveAddr
    /\ Go([acceptLoop EXCEPT !.haveAddr = TRUE, !.remoteAddr = nil])
    /\ UNCHANGED <<masterAddr, masterStopChan, closed, tracker, published,
                   changes, lastPoll>>

\* main.go:118: the argument masterAddr is read.
main_read_masterAddr ==
    /\ Running
    /\ acceptLoop.pc = "go"
    /\ ~acceptLoop.haveAddr
    /\ Go([acceptLoop EXCEPT !.haveAddr = TRUE, !.remoteAddr = masterAddr])
    /\ UNCHANGED <<masterAddr, masterStopChan, closed, tracker, published,
                   changes, lastPoll>>

\* main.go:118: the argument masterStopChan is read.  Go fixes no order between
\* the two reads (only calls and channel operations are ordered left to right).
main_read_masterStopChan ==
    /\ Running
    /\ acceptLoop.pc = "go"
    /\ ~acceptLoop.haveChan
    /\ Go([acceptLoop EXCEPT !.haveChan = TRUE, !.masterStopChan = masterStopChan])
    /\ UNCHANGED <<masterAddr, masterStopChan, closed, tracker, published,
                   changes, lastPoll>>

(***************************************************************************)
(* proxy and pipe                                                          *)
(***************************************************************************)
\* The failure branch without local.Close() (main.go:171).
Dialed_KeepLocal(session, ok) ==
    IF ok
    THEN [session EXCEPT !.pc = "select", !.remote = "open",
                         !.localChan = "open", !.remoteChan = "open"]
    ELSE [session EXCEPT !.pc = "done"]

\* main.go:168-181: the dial; on failure local is closed and proxy returns; on
\* success the two closes are deferred, the channels made and the pipes started.
Dialed(session, ok) ==
    IF ok
    THEN [session EXCEPT !.pc = "select", !.remote = "open",
                         !.localChan = "open", !.remoteChan = "open"]
    ELSE [session EXCEPT !.pc = "done", !.local = "closed"]

\* The failed dial reported with log.Fatalf, which ends the process.
proxy_dial_Fatal(s) ==
    /\ Running
    /\ s \in DOMAIN sessions
    /\ sessions[s].pc = "dial"
    /\ \E listening \in SUBSET Masters :
          LET ok == DialTimeout(String(sessions[s].remoteAddr), listening)
          IN  /\ sessions' = [sessions EXCEPT ![s] = Dialed(@, ok)]
              /\ tracker' = IF ok THEN tracker ELSE [Polling EXCEPT !.pc = "panic"]
    /\ UNCHANGED <<masterAddr, masterStopChan, closed, acceptLoop,
                   published, changes, lastPoll>>

proxy_dial(s) ==
    /\ Running
    /\ s \in DOMAIN sessions
    /\ sessions[s].pc = "dial"
    /\ \E listening \in SUBSET Masters :
          sessions' = [sessions EXCEPT ![s] =
              Dialed(@, DialTimeout(String(@.remoteAddr), listening))]
    /\ UNCHANGED <<masterAddr, masterStopChan, closed, tracker, acceptLoop,
                   published, changes, lastPoll>>

\* The completion sent on the channel (proxyChan <- "done") instead of closing it:
\* the send is received only while proxy waits in its select.
PipeDone_Send(session, proxyChan) ==
    IF session.pc # "select" THEN session
    ELSE IF proxyChan = "remoteChan"
         THEN [session EXCEPT !.remoteChan = "closed"]
         ELSE [session EXCEPT !.localChan = "closed"]

\* main.go:149-161: io.Copy returns (end of stream, or an error, as when the
\* connections are closed under it) and pipe closes its proxyChan.
\* pipe(local, remote, remoteChan) and pipe(remote, local, localChan).
PipeDone(session, proxyChan) ==
    IF proxyChan = "remoteChan"
    THEN [session EXCEPT !.remoteChan = "closed"]
    ELSE [session EXCEPT !.localChan = "closed"]

pipe(s, proxyChan) ==
    /\ Running
    /\ s \in DOMAIN sessions
    /\ sessions[s][proxyChan] = "open"
    /\ sessions' = [sessions EXCEPT ![s] = PipeDone(@, proxyChan)]
    /\ UNCHANGED <<masterAddr, masterStopChan, closed, tracker, acceptLoop,
                   published, changes, lastPoll>>

\* The select with a default case: it never waits.
Ready_Default(session) ==
    {"default"} \cup {c \in {"localChan", "remoteChan"} : session[c] = "closed"}

\* main.go:183-187: the cases of the select that can proceed.
Ready(session) ==
    {c \in {"masterStopChan"} : session.masterStopChan \in closed}
        \cup {c \in {"localChan", "remoteChan"} : session[c] = "closed"}

\* The return without the deferred remote.Close() of main.go:175.
Returned_LeakRemote(session) ==
    [session EXCEPT !.pc = "done", !.local = "closed"]

\* The return with proxy closing localChan and remoteChan itself, channels its
\* pipes close too.
Returned_ClosesChans(session) ==
    [session EXCEPT !.pc = "done", !.remote = "closed", !.local = "closed",
                    !.localChan = "closed", !.remoteChan = "closed"]

\* main.go:189-190 with the deferred calls of 174-175: remote.Close(), local.Close().
Returned(session) ==
    [session EXCEPT !.pc = "done", !.remote = "closed", !.local = "closed"]

proxy_select(s) ==
    /\ Running
    /\ s \in DOMAIN sessions
    /\ sessions[s].pc = "select"
    /\ Ready(sessions[s]) # {}
    /\ sessions' = [sessions EXCEPT ![s] = Returned(@)]
    /\ UNCHANGED <<masterAddr, masterStopChan, closed, tracker, acceptLoop,
                   published, changes, lastPoll>>

(***************************************************************************)
(* Specifications                                                          *)
(***************************************************************************)
SessionIds == 1..MaxSessions

Next ==
    \/ update_master_poll
    \/ update_master_backoff
    \/ update_master_compare
    \/ update_master_close
    \/ update_master_make
    \/ main_accept
    \/ main_read_masterAddr
    \/ main_read_masterStopChan
    \/ \E s \in SessionIds : proxy_dial(s)
    \/ \E s \in SessionIds : pipe(s, "localChan")
    \/ \E s \in SessionIds : pipe(s, "remoteChan")
    \/ \E s \in SessionIds : proxy_select(s)

Spec == Init /\ [][Next]_vars

\* update_master alone, every poll keeping the environment it ran against.
TrackerNext ==
    \/ update_master_poll_traced
    \/ update_master_backoff
    \/ update_master_compare
    \/ update_master_close
    \/ update_master_make

TrackerSpec == Init /\ [][TrackerNext]_vars

\* main.go:154: io.Copy on a connection its session has closed returns an error,
\* so this step of pipe cannot be put off forever.
pipe_after_close(s, proxyChan) ==
    /\ s \in DOMAIN sessions
    /\ sessions[s].pc = "done"
    /\ pipe(s, proxyChan)

\* The sessions followed to their end under fair scheduling.
FairSessions == 1

\* Next, with the accept loop stopping after FairSessions connections.
FairNext ==
    \/ update_master_poll
    \/ update_master_backoff
    \/ update_master_compare
    \/ update_master_close
    \/ update_master_make
    \/ main_accept /\ Len(sessions) < FairSessions
    \/ main_read_masterAddr
    \/ main_read_masterStopChan
    \/ \E s \in SessionIds : proxy_dial(s)
    \/ \E s \in SessionIds : pipe(s, "localChan")
    \/ \E s \in SessionIds : pipe(s, "remoteChan")
    \/ \E s \in SessionIds : proxy_select(s)

\* The scheduling the Go runtime gives: a select with a case that can proceed
\* does proceed, and a copy on a closed connection returns.
FairSpec ==
    /\ Init
    /\ [][FairNext]_vars
    /\ \A s \in SessionIds : WF_vars(proxy_select(s))
    /\ \A s \in SessionIds : WF_vars(pipe_after_close(s, "localChan"))
    /\ \A s \in SessionIds : WF_vars(pipe_after_close(s, "remoteChan"))

(***************************************************************************)
(* Properties                                                              *)
(***************************************************************************)
\* A session that is past its dial, holding both connections open.
Relaying(session) == session.pc = "select"

\* C1: whenever update_master changes masterAddr from A to another address B,
\* every session that was started with A is cancelled: once the change has closed
\* the channel, no session is relaying to an address other than masterAddr on a
\* channel that was not closed, whatever the interleaving of the accept loop with
\* update_master.
C1_StaleSessionsCancelled ==
    \A s \in DOMAIN sessions :
        (/\ Relaying(sessions[s])
         /\ masterAddr # nil
         /\ String(sessions[s].remoteAddr) # String(masterAddr)
         /\ tracker.pc # "close")
            => sessions[s].masterStopChan \in closed

\* C2: the (address, channel) pair a session is started with is a pair that
\* update_master published together: the channel is one that was installed while
\* masterAddr was the session's address.
C2_SessionPairPublished ==
    \A s \in DOMAIN sessions :
        published[sessions[s].masterStopChan] = sessions[s].remoteAddr

\* C3: a poll whose discovery yields no result (nil, no error) while masterAddr is
\* known leaves masterAddr at its value and does not go on to close the channel.
C3_NoResultKeepsMaster ==
    [][(/\ tracker.pc = "compare"
        /\ tracker.possibleMaster = nil
        /\ masterAddr # nil)
           => (masterAddr' = masterAddr /\ tracker'.pc # "close")]_vars

\* C4: whenever the accept loop is about to read masterStopChan, the installed
\* channel is not closed, so that no session is started on a closed channel.
C4_InstalledSignalUnfired ==
    (acceptLoop.pc = "go" /\ ~acceptLoop.haveChan) => masterStopChan \notin closed

\* C5: after any sequence of polls as many channels were closed as masterAddr was
\* changed; no channel is closed twice (that close would panic); a closed channel is
\* never the installed one once the update is over; and every session that waits on
\* a closed channel has the masterStopChan case of its select ready.
C5_FiringsMatchChanges ==
    /\ tracker.pc # "panic"
    /\ tracker.pc \in {"poll", "backoff", "compare"} => Cardinality(closed) = changes
    /\ tracker.pc # "make" => masterStopChan \notin closed
    /\ \A s \in DOMAIN sessions :
          (Relaying(sessions[s]) /\ sessions[s].masterStopChan \in closed)
              => "masterStopChan" \in Ready(sessions[s])

\* Two changes are over and a session is waiting on a channel one of them closed.
C5_Witness ==
    /\ tracker.pc = "poll"
    /\ changes = 2
    /\ Cardinality(closed) = 2
    /\ \E s \in DOMAIN sessions :
          Relaying(sessions[s]) /\ sessions[s].masterStopChan \in closed

\* C6: when a poll returns an address whose string equals masterAddr's, the step of
\* update_master that compares them leaves masterAddr, the installed channel, the
\* closed channels and every session as they are and goes back to polling.
C6_SameAddressNoFiring ==
    [][(tracker.pc = "compare"
        /\ String(tracker.possibleMaster) = String(masterAddr))
           => /\ masterAddr' = masterAddr
              /\ masterStopChan' = masterStopChan
              /\ closed' = closed
              /\ tracker'.pc \in {"compare", "poll"}
              /\ (tracker' # tracker => sessions' = sessions)]_vars

\* The poll returned the known master again while a session relays to it.
C6_Witness ==
    /\ tracker.pc = "compare"
    /\ masterAddr # nil
    /\ String(tracker.possibleMaster) = String(masterAddr)
    /\ \E s \in DOMAIN sessions :
          /\ Relaying(sessions[s])
          /\ sessions[s].remoteAddr = masterAddr
          /\ sessions[s].masterStopChan \notin closed

\* The address one sentinel reports (nil when it reports none).
Reported(sentinel) == getMasterAddrFromSentinel(sentinel).addr

\* The sentinels of an environment that report an address something listens on.
Usable(env) ==
    {i \in DOMAIN env.sentinels : Reported(env.sentinels[i]) \in env.listening}

\* C7: the address getMasterAddr returns is never one whose probe failed: it is nil
\* or an address something listens on, it is nil exactly when no sentinel reports a
\* listening address, and a failed probe is no error of the poll.
C7_ReachabilityGate ==
    lastPoll # <<>> =>
        /\ tracker.pc = "compare" =>
              /\ tracker.possibleMaster \in lastPoll[1].listening \cup {nil}
              /\ tracker.possibleMaster = nil <=> Usable(lastPoll[1]) = {}
        /\ tracker.pc = "backoff" => ~lastPoll[1].dns

\* The first sentinel reported an address nothing listens on, the second one that
\* is reachable, and the poll returned the second.
C7_Witness ==
    /\ tracker.pc = "compare"
    /\ lastPoll # <<>>
    /\ Len(lastPoll[1].sentinels) = 2
    /\ Reported(lastPoll[1].sentinels[1]) # nil
    /\ Reported(lastPoll[1].sentinels[1]) \notin lastPoll[1].listening
    /\ tracker.possibleMaster = Reported(lastPoll[1].sentinels[2])
    /\ tracker.possibleMaster # nil

\* C8: the step of a session that dials either opens the connection to the master
\* or closes the client connection and ends the session, with no channel made and
\* no pipe started; a session whose address is nil always takes the second way; and
\* no session dials twice.
C8_DialFailureCloses ==
    [][\A s \in DOMAIN sessions :
          /\ (sessions[s].pc = "dial" /\ sessions'[s] # sessions[s])
                => \/ sessions'[s].remote = "open" /\ sessions[s].remoteAddr # nil
                   \/ /\ sessions'[s].pc = "done"
                      /\ sessions'[s].local = "closed"
                      /\ sessions'[s].remote = "none"
                      /\ sessions'[s].localChan = "none"
                      /\ sessions'[s].remoteChan = "none"
          /\ sessions[s].pc # "dial" => sessions'[s].pc # "dial"]_vars

\* One session failed to dial a nil address and another an address nothing listens on.
C8_Witness ==
    \E s, t \in DOMAIN sessions :
        /\ sessions[s].pc = "done" /\ sessions[s].remote = "none"
        /\ sessions[s].remoteAddr = nil
        /\ sessions[t].pc = "done" /\ sessions[t].remote = "none"
        /\ sessions[t].remoteAddr # nil

\* C9: a session that has returned has closed the client connection and, if it
\* opened one, the connection to the master.
C9_BothConnectionsClosed ==
    \A s \in DOMAIN sessions :
        sessions[s].pc = "done"
            => sessions[s].local = "closed" /\ sessions[s].remote # "open"

\* One session was ended by its closed master-stop channel with both pipes still
\* copying, another by the completion of one of its pipes.
C9_Witness ==
    \E s, t \in DOMAIN sessions :
        /\ sessions[s].pc = "done" /\ sessions[s].remote = "closed"
        /\ sessions[s].masterStopChan \in closed
        /\ sessions[s].localChan = "open" /\ sessions[s].remoteChan = "open"
        /\ sessions[t].pc = "done" /\ sessions[t].remote = "closed"
        /\ sessions[t].masterStopChan \notin closed

\* A sentinel whose reply splits into fewer than 5 segments.
Malformed(sentinel) ==
    /\ sentinel.up
    /\ sentinel.readable
    /\ Len(Split(Read(sentinel.reply), CRLF)) < 5

\* C10: a reply of fewer than 5 segments is an error of that sentinel alone: the
\* poll neither panics nor returns an error, and when the first sentinel that
\* reports a listening address comes after the malformed one, it is that sentinel's
\* address the poll returns.
C10_MalformedReplySkipped ==
    /\ tracker.pc # "panic"
    /\ lastPoll # <<>> =>
          LET env == lastPoll[1]
              malformed == {i \in DOMAIN env.sentinels : Malformed(env.sentinels[i])}
          IN  (env.dns /\ malformed # {}) =>
                  /\ tracker.pc # "backoff"
                  /\ tracker.pc = "compare" =>
                        \A i \in malformed, j \in Usable(env) :
                            (i < j /\ \A k \in Usable(env) : j <= k)
                                => tracker.possibleMaster = Reported(env.sentinels[j])

\* The first sentinel sent a malformed reply and the poll returned the address the
\* second reported.
C10_Witness ==
    /\ tracker.pc = "compare"
    /\ lastPoll # <<>>
    /\ Len(lastPoll[1].sentinels) = 2
    /\ Malformed(lastPoll[1].sentinels[1])
    /\ tracker.possibleMaster # nil
    /\ tracker.possibleMaster = Reported(lastPoll[1].sentinels[2])

\* The address of the last update of update_master: the one it is in the middle
\* of, or else the one it completed last.
LatestMaster ==
    IF tracker.pc \in {"close", "make"} THEN tracker.possibleMaster
    ELSE published[Len(published)]

\* C11: the address main reads for an accepted connection is the address of the
\* latest update (so, after a completed update to B and with no further update
\* under way, B and never the address before it); the session is started with the
\* address that was read and keeps it.
C11_NewSessionDialsCurrent ==
    [][/\ (/\ acceptLoop.pc = "go"
           /\ ~acceptLoop.haveAddr
           /\ acceptLoop'.haveAddr \/ Len(sessions') > Len(sessions))
             => LatestMaster = IF Len(sessions') > Len(sessions)
                               THEN sessions'[Len(sessions')].remoteAddr
                               ELSE acceptLoop'.remoteAddr
       /\ (acceptLoop.haveAddr /\ Len(sessions') > Len(sessions))
             => sessions'[Len(sessions')].remoteAddr = acceptLoop.remoteAddr
       /\ \A s \in DOMAIN sessions :
             sessions'[s].remoteAddr = sessions[s].remoteAddr]_vars

\* The master changed from one address to another; the session to the first was
\* cancelled and a session started since relays to the second.
C11_Witness ==
    /\ tracker.pc = "poll"
    /\ changes = 2
    /\ masterAddr # nil
    /\ published[2] # nil
    /\ published[2] # masterAddr
    /\ \E s, t \in DOMAIN sessions :
          /\ sessions[s].remoteAddr = published[2]
          /\ sessions[s].masterStopChan = 2
          /\ sessions[s].pc = "done"
          /\ sessions[t].remoteAddr = masterAddr
          /\ sessions[t].masterStopChan = 3
          /\ Relaying(sessions[t])

\* One of the three events a session waits for has occurred: its master-stop
\* channel is closed, or one of its two pipes has finished.
Signalled(s) ==
    /\ s \in DOMAIN sessions
    /\ \/ sessions[s].masterStopChan \in closed
       \/ sessions[s].localChan = "closed"
       \/ sessions[s].remoteChan = "closed"

\* The session has returned and both of its connections are closed.
Ended(s) ==
    /\ s \in DOMAIN sessions
    /\ sessions[s].pc = "done"
    /\ sessions[s].local = "closed"
    /\ sessions[s].remote = "closed"

\* C12: a session that dialed successfully holds both connections open while it
\* waits; it leaves the wait, or closes a connection, only in a step before which
\* its master-stop channel was closed or one of its pipes had finished; and once
\* one of these has happened it eventually returns with both connections closed.
C12_EndsOnFirstEvent ==
    /\ [][\A s \in DOMAIN sessions :
             Relaying(sessions[s]) =>
                 /\ sessions[s].local = "open" /\ sessions[s].remote = "open"
                 /\ (\/ ~Relaying(sessions'[s])
                     \/ sessions'[s].local # "open"
                     \/ sessions'[s].remote # "open") => Signalled(s)]_vars
    /\ \A s \in SessionIds :
          (Signalled(s) /\ Relaying(sessions[s])) ~> Ended(s)

\* The master-to-client pipe finished, the session returned on it with its
\* master-stop channel not closed, and the channel was closed only afterwards.
C12_Witness ==
    \E s \in DOMAIN sessions :
        /\ Ended(s)
        /\ sessions[s].localChan = "closed"
        /\ sessions[s].remoteChan = "open"
        /\ sessions[s].masterStopChan = masterStopChan
        /\ masterStopChan \notin closed
        /\ changes = MaxChanges

\* C13: from the step in which a poll returns an error until update_master is
\* back at the top of its loop, masterAddr, the installed channel and the closed
\* channels stay as they are; the steps update_master takes change no session; and
\* the step after the error takes update_master to the poll it started from, with
\* nothing kept that could count the retries.
C13_ErrorKeepsState ==
    [][(tracker.pc = "backoff" \/ tracker'.pc = "backoff") =>
          /\ masterAddr' = masterAddr
          /\ masterStopChan' = masterStopChan
          /\ closed' = closed
          /\ tracker' # tracker =>
                /\ sessions' = sessions
                /\ tracker.pc = "backoff" => tracker' = Polling]_vars

\* A poll returned an error while the master is known and a session relays to it
\* on the installed channel.
C13_Witness ==
    /\ tracker.pc = "backoff"
    /\ masterAddr # nil
    /\ changes = 1
    /\ \E s \in DOMAIN sessions :
          /\ Relaying(sessions[s])
          /\ sessions[s].remoteAddr = masterAddr
          /\ sessions[s].masterStopChan = masterStopChan
          /\ masterStopChan \notin closed

\* The first sentinel, in the order they were resolved, that reports an address
\* something listens on.
FirstUsable(env) ==
    CHOOSE j \in Usable(env) : \A k \in Usable(env) : j <= k

\* C14: a poll whose sentinels resolved never ends in an error; with no sentinel
\* that reports a listening address it returns nil; otherwise it returns the
\* address reported by the first such sentinel, which is also what it returns for
\* the list cut after that sentinel, whatever the sentinels that follow would say.
C14_FirstQualifyingSentinel ==
    (lastPoll # <<>> /\ lastPoll[1].dns) =>
        /\ tracker.pc \notin {"backoff", "panic"}
        /\ tracker.pc = "compare" =>
              LET env == lastPoll[1]
              IN  IF Usable(env) = {}
                  THEN tracker.possibleMaster = nil
                  ELSE /\ tracker.possibleMaster
                             = Reported(env.sentinels[FirstUsable(env)])
                       /\ tracker.possibleMaster
                             = getMasterAddr([env EXCEPT !.sentinels =
                                   SubSeq(@, 1, FirstUsable(env))]).addr

\* Two sentinels reported different addresses, both listened on, and the poll
\* returned the address of the first.
C14_Witness ==
    /\ tracker.pc = "compare"
    /\ lastPoll # <<>>
    /\ Usable(lastPoll[1]) = {1, 2}
    /\ Reported(lastPoll[1].sentinels[1]) # Reported(lastPoll[1].sentinels[2])
    /\ tracker.possibleMaster = Reported(lastPoll[1].sentinels[1])

\* Both pipes of the session have closed their channels.
PipesDone(s) ==
    /\ s \in DOMAIN sessions
    /\ sessions[s].localChan = "closed"
    /\ sessions[s].remoteChan = "closed"

\* C15: once a session has returned with both connections closed, each of its two
\* pipes eventually closes its channel, whether the session returned on its
\* master-stop channel or on one of the pipes.
C15_RelaysComplete ==
    \A s \in SessionIds : Ended(s) ~> PipesDone(s)

\* A session was cancelled by its master-stop channel while both pipes were
\* copying, and both pipes have since finished.
C15_Witness ==
    \E s \in DOMAIN sessions :
        /\ Ended(s)
        /\ PipesDone(s)
        /\ sessions[s].masterStopChan \in closed
        /\ sessions[s].remoteAddr # masterAddr
        /\ tracker.pc = "poll"

\* C16: a step that changes a session (its dial, failed or not, the end of one of
\* its pipes, its return) changes no other session and leaves masterAddr, the
\* installed channel, the closed channels, update_master and the accept loop as
\* they are.
C16_SessionStepsAreLocal ==
    [][\A s \in DOMAIN sessions :
          sessions'[s] # sessions[s] =>
              /\ Len(sessions') = Len(sessions)
              /\ \A t \in DOMAIN sessions : t # s => sessions'[t] = sessions[t]
              /\ masterAddr' = masterAddr
              /\ masterStopChan' = masterStopChan
              /\ closed' = closed
              /\ tracker' = tracker
              /\ acceptLoop' = acceptLoop]_vars

\* One session failed its dial, another returned after one of its pipes ended, and
\* update_master is in the middle of an update.
C16_Witness ==
    /\ tracker.pc = "close"
    /\ \E s, t \in DOMAIN sessions :
          /\ sessions[s].pc = "done" /\ sessions[s].remote = "none"
          /\ Ended(t)
          /\ sessions[t].masterStopChan \notin closed

\* C17: masterAddr, the installed channel and the set of closed channels change
\* only in a step of update_master, at its comparison, its close or its make; a
\* step of the accept loop, of a session or of a pipe leaves all three as they are.
C17_TrackerIsSoleWriter ==
    [][/\ (\/ masterAddr' # masterAddr
           \/ masterStopChan' # masterStopChan
           \/ closed' # closed)
             => /\ tracker.pc \in {"compare", "close", "make"}
                /\ tracker' # tracker
                /\ acceptLoop' = acceptLoop
                /\ sessions' = sessions
       /\ (acceptLoop' # acceptLoop \/ sessions' # sessions)
             => /\ masterAddr' = masterAddr
                /\ masterStopChan' = masterStopChan
                /\ closed' = closed
                /\ published' = published]_vars

\* After two updates the accept loop has read the address for one more connection
\* and a session started on the third channel has run to the end of both pipes.
C17_Witness ==
    /\ masterStopChan = 3
    /\ closed = {1, 2}
    /\ acceptLoop.pc = "go"
    /\ acceptLoop.haveAddr
    /\ acceptLoop.remoteAddr = masterAddr
    /\ \E s \in DOMAIN sessions :
          PipesDone(s) /\ sessions[s].masterStopChan = 3

\* The address of the update that closed channel c: the one installed with the
\* next channel, or masterAddr while that channel is still to be made.
ClosedByUpdateTo(c) ==
    IF c < Len(published) THEN published[c + 1] ELSE masterAddr

\* C18: a session that dialed an address B and whose master-stop channel has been
\* closed had it closed by an update to an address other than B: no session is
\* cancelled by the very update that wrote the address it dialed, even when it was
\* accepted between that write and the close of the old channel.
C18_CancelledOnlyByLaterChange ==
    \A s \in DOMAIN sessions :
        (sessions[s].remote # "none" /\ sessions[s].masterStopChan \in closed)
            => String(sessions[s].remoteAddr)
                   # String(ClosedByUpdateTo(sessions[s].masterStopChan))

\* C19: update_master never panics on a close: the channel it is about to close is
\* not closed; a channel is closed only by update_master's close, and it is the
\* installed one; the make that follows installs a channel that is not closed.  A
\* channel of a pipe goes from open to closed in a step that changes nothing else
\* of its session, the step of the pipe that owns it, and stays closed.
C19_NoDoubleClose ==
    [][/\ tracker.pc # "panic" /\ tracker'.pc # "panic"
       /\ tracker.pc = "close" => masterStopChan \notin closed
       /\ closed' # closed =>
             /\ tracker.pc = "close" /\ tracker'.pc = "make"
             /\ closed' = closed \cup {masterStopChan}
       /\ (tracker.pc = "make" /\ tracker' # tracker) =>
             /\ masterStopChan' # masterStopChan
             /\ masterStopChan' \notin closed'
       /\ \A s \in DOMAIN sessions : \A c \in {"localChan", "remoteChan"} :
             /\ sessions[s][c] = "closed" => sessions'[s][c] = "closed"
             /\ (sessions[s][c] = "open" /\ sessions'[s][c] # "open") =>
                   sessions'[s] = [sessions[s] EXCEPT ![c] = "closed"]]_vars

\* Two channels were closed by two updates and both pipes of two sessions have
\* closed theirs, one session having been cancelled and one not.
C19_Witness ==
    /\ tracker.pc = "poll"
    /\ Cardinality(closed) = 2
    /\ masterStopChan \notin closed
    /\ \E s, t \in DOMAIN sessions :
          /\ PipesDone(s) /\ sessions[s].masterStopChan \in closed
          /\ PipesDone(t) /\ sessions[t].masterStopChan = masterStopChan

====
